---- MODULE Spec2Model ----
(***************************************************************************)
(* Paperbean invoice / purchase-order maker (src/app.py).                  *)
(*                                                                         *)
(* The model covers the document numbering and ledger subsystem: the       *)
(* identifier helpers, the sequence allocator, the two ledger tables, the  *)
(* two storage buckets and the two submit handlers of the Streamlit        *)
(* script.  Every browser session runs the script in its own thread, so    *)
(* the handlers of different sessions interleave at their network calls    *)
(* (ledger query, blob upload, ledger insert).                             *)
(*                                                                         *)
(* Python strings are modelled as sequences of one-character strings, so   *)
(* that formatting, upper-casing, splitting and the substring test of the  *)
(* year filter are computed the way the code computes them.                *)
(***************************************************************************)
EXTENDS Naturals, Sequences, FiniteSets, TLC

(***************************************************************************)
(* Bounds of the model.                                                    *)
(***************************************************************************)
\* total number of submits (script runs with a Generate button pressed)
MaxRequests == 2

\* longest display name handed to make_initials on its own
MaxNameLen == 5
\* most rows the ledger holds when the ledger functions are called on their own
MaxRows == 5
\* largest limit handed to fetch_history
MaxLimit == 3

\* the browser sessions that run the script concurrently
Sessions == {"s1", "s2"}

\* display names the user may type into the vendor field
Names ==
    { <<>>,
      <<"m", " ", "h">> }

\* dates the user may pick in the date input (st.date_input keeps the year
\* within ten years of today, so years always have four digits)
Dates ==
    { [year |-> 2025, month |-> 11, day |-> 15],
      [year |-> 2025, month |-> 12, day |-> 20],
      [year |-> 2026, month |-> 1, day |-> 5] }

\* text the user may type into the Bank field of the invoice form
Banks ==
    { <<"b", "c", "a">> }

(***************************************************************************)
(* String helpers: what Python's str(), format padding, upper(), strip(),  *)
(* split() and the `in` substring test do.                                 *)
(***************************************************************************)
Digit(d) ==
    CASE d = 0 -> "0" [] d = 1 -> "1" [] d = 2 -> "2" [] d = 3 -> "3"
      [] d = 4 -> "4" [] d = 5 -> "5" [] d = 6 -> "6" [] d = 7 -> "7"
      [] d = 8 -> "8" [] d = 9 -> "9"

RECURSIVE Str(_)
\* str(n) for a natural number
Str(n) ==
    IF n < 10 THEN <<Digit(n)>> ELSE Str(n \div 10) \o <<Digit(n % 10)>>

RECURSIVE Zeros(_)
Zeros(k) ==
    IF k = 0 THEN <<>> ELSE <<"0">> \o Zeros(k - 1)

\* f"{n:0{w}d}": zero-padded to at least w digits, never truncated
Pad(n, w) ==
    LET s == Str(n)
    IN  IF Len(s) >= w THEN s ELSE Zeros(w - Len(s)) \o s

\* str.upper() on one character
UpperChar(c) ==
    CASE c = "m" -> "M"
      [] c = "h" -> "H"
      [] c = "a" -> "A"
      [] OTHER -> c

Upper(s) ==
    [i \in 1..Len(s) |-> UpperChar(s[i])]

IsSpace(c) ==
    c = " "

RECURSIVE LStrip(_)
LStrip(s) ==
    IF s /= <<>> /\ IsSpace(Head(s)) THEN LStrip(Tail(s)) ELSE s

RECURSIVE RStrip(_)
RStrip(s) ==
    IF s /= <<>> /\ IsSpace(s[Len(s)])
    THEN RStrip(SubSeq(s, 1, Len(s) - 1))
    ELSE s

\* str.strip()
Strip(s) ==
    RStrip(LStrip(s))

RECURSIVE SplitFrom(_, _, _)
\* str.split(): the non-empty maximal runs of non-whitespace characters
SplitFrom(s, cur, acc) ==
    IF s = <<>>
    THEN IF cur = <<>> THEN acc ELSE Append(acc, cur)
    ELSE IF IsSpace(Head(s))
         THEN SplitFrom(Tail(s), <<>>, IF cur = <<>> THEN acc ELSE Append(acc, cur))
         ELSE SplitFrom(Tail(s), Append(cur, Head(s)), acc)

Split(s) ==
    SplitFrom(s, <<>>, <<>>)

\* Python's `sub in s` on strings
Contains(sub, s) ==
    \E i \in 1..(Len(s) + 1) :
        /\ i + Len(sub) - 1 <= Len(s)
        /\ SubSeq(s, i, i + Len(sub) - 1) = sub

\* str.replace('/', '-')
ReplaceSlash(s) ==
    [i \in 1..Len(s) |-> IF s[i] = "/" THEN "-" ELSE s[i]]

\* datetime.isoformat() of a date combined with midnight
IsoFormat(dt) ==
    Pad(dt.year, 4) \o <<"-">> \o Pad(dt.month, 2) \o <<"-">> \o Pad(dt.day, 2)
        \o <<"T", "0", "0", ":", "0", "0", ":", "0", "0">>

(***************************************************************************)
(* Identifier helpers and sequence allocation (src/app.py lines 31-160).   *)
(***************************************************************************)
ROMAN(m) ==
    CASE m = 1 -> <<"I">>
      [] m = 2 -> <<"I", "I">>
      [] m = 3 -> <<"I", "I", "I">>
      [] m = 4 -> <<"I", "V">>
      [] m = 5 -> <<"V">>
      [] m = 6 -> <<"V", "I">>
      [] m = 7 -> <<"V", "I", "I">>
      [] m = 8 -> <<"V", "I", "I", "I">>
      [] m = 9 -> <<"I", "X">>
      [] m = 10 -> <<"X">>
      [] m = 11 -> <<"X", "I">>
      [] m = 12 -> <<"X", "I", "I">>

\* ROMAN.get(dt.month, str(dt.month))
to_roman_month(dt) ==
    IF dt.month \in 1..12 THEN ROMAN(dt.month) ELSE Str(dt.month)

\* the initials taken from the first two tokens
MakeInitialsSecondToken(name) ==
    LET parts == Split(Strip(name))
    IN  IF Len(parts) = 0 THEN <<"X", "X">>
        ELSE IF Len(parts) = 1
             THEN Upper(SubSeq(parts[1], 1, IF Len(parts[1]) < 2 THEN Len(parts[1]) ELSE 2))
             ELSE Upper(<<parts[1][1], parts[2][1]>>)

make_initials(name) ==
    LET parts == Split(Strip(name))
    IN  IF Len(parts) = 0 THEN <<"X", "X">>
        ELSE IF Len(parts) = 1
             THEN Upper(SubSeq(parts[1], 1, IF Len(parts[1]) < 2 THEN Len(parts[1]) ELSE 2))
             ELSE Upper(<<parts[1][1], parts[Len(parts)][1]>>)

\* max() of a non-empty set of naturals
SetMax(S) ==
    CHOOSE x \in S : \A y \in S : y <= x

\* the older code-first ordering of the number
BuildInvoiceNumberCodeFirst(initials, seq, dt) ==
    <<"I", "N", "V", "-">> \o initials \o <<"/">> \o Pad(seq, 3) \o <<"/">>
        \o to_roman_month(dt) \o <<"/">> \o Str(dt.year)

\* f"{seq:03d}/INV-{initials}/{roman}/{year}"
build_invoice_number(initials, seq, dt) ==
    Pad(seq, 3) \o <<"/", "I", "N", "V", "-">> \o initials \o <<"/">>
        \o to_roman_month(dt) \o <<"/">> \o Str(dt.year)

\* f"{seq:03d}/PO-{initials}/{roman}/{year}"
build_po_number(initials, seq, dt) ==
    Pad(seq, 3) \o <<"/", "P", "O", "-">> \o initials \o <<"/">>
        \o to_roman_month(dt) \o <<"/">> \o Str(dt.year)

(***************************************************************************)
(* State.                                                                  *)
(*   invoices, purchase_orders  the two ledger tables, in insertion order  *)
(*                              (created_at); rid and issued are history   *)
(*                              fields the code does not store             *)
(*   storage                    the blobs of the buckets "invoices", "pos" *)
(*   puts                       history: every bucket.upload call made,    *)
(*                              with the request that made it              *)
(*   now                        datetime.now(), in microseconds            *)
(*   lastread                   the clock value each session read last     *)
(*   pc                         where each session's script run stands     *)
(*   req                        the locals of each session's script run    *)
(*   trace                      history: the stages the run went through   *)
(*   report                     what the run has shown to the user         *)
(*   nreq                       number of submits so far                   *)
(*   call                       the last direct call of a helper function: *)
(*                              its name, argument and result              *)
(***************************************************************************)
VARIABLES invoices, purchase_orders, storage, puts, now, lastread,
          pc, req, trace, report, nreq, call

vars == <<invoices, purchase_orders, storage, puts, now, lastread,
          pc, req, trace, report, nreq, call>>

\* no helper has been called on its own
NoCall ==
    [fn |-> "none", arg |-> <<>>, out |-> <<>>]

Buckets == {"invoices", "pos"}

\* the locals of a script run before the handler has assigned them
NoReq ==
    [kind |-> "none", name |-> <<>>, date |-> [year |-> 0, month |-> 0, day |-> 0],
     save |-> FALSE, bank |-> <<>>, rid |-> 0, previous_data |-> <<>>,
     initials |-> <<>>, seq |-> 0, doc_no |-> <<>>, pdf_bytes |-> <<>>,
     filename |-> <<>>, pdf_url |-> <<>>, uploaded |-> FALSE]

Init ==
    /\ invoices = <<>>
    /\ purchase_orders = <<>>
    /\ storage = [b \in Buckets |-> {}]
    /\ puts = <<>>
    /\ now = 0
    /\ lastread = [s \in Sessions |-> 0]
    /\ pc = [s \in Sessions |-> "idle"]
    /\ req = [s \in Sessions |-> NoReq]
    /\ trace = [s \in Sessions |-> <<>>]
    /\ report = [s \in Sessions |-> <<>>]
    /\ nreq = 0
    /\ call = NoCall

\* a script run is over: the page is idle until the next button press
Resting(s) ==
    pc[s] \in {"idle", "done", "stopped", "crashed"}

InFlight(s) ==
    ~Resting(s)

(***************************************************************************)
(* Ledger queries.                                                         *)
(***************************************************************************)
GetNextSequenceNoYearFilter(initials, year) ==
    LET rows == {i \in 1..Len(invoices) : invoices[i].initials = initials}
    IN  IF rows = {} THEN 1 ELSE SetMax({invoices[i].seq : i \in rows}) + 1

GetNextSequenceNoIncrement(initials, year) ==
    LET rows == {i \in 1..Len(invoices) : invoices[i].initials = initials}
        filtered == {i \in rows : Contains(Str(year), invoices[i].invoice_date)}
    IN  IF filtered = {} THEN 1 ELSE SetMax({invoices[i].seq : i \in filtered})

get_next_sequence(initials, year) ==
    LET rows == {i \in 1..Len(invoices) : invoices[i].initials = initials}
        filtered == {i \in rows : Contains(Str(year), invoices[i].invoice_date)}
    IN  IF rows = {} THEN 1
        ELSE IF filtered = {} THEN 1
             ELSE SetMax({invoices[i].seq : i \in filtered}) + 1

get_next_po_sequence(initials, year) ==
    LET rows == {i \in 1..Len(purchase_orders) : purchase_orders[i].initials = initials}
        filtered == {i \in rows : Contains(Str(year), purchase_orders[i].po_date)}
    IN  IF rows = {} THEN 1
        ELSE IF filtered = {} THEN 1
             ELSE SetMax({purchase_orders[i].seq : i \in filtered}) + 1

\* the query ordered oldest first
FetchHistoryAscending(limit) ==
    LET n == Len(invoices)
        k == IF limit < n THEN limit ELSE n
    IN  [i \in 1..k |-> invoices[i]]

\* select * from invoices order by created_at desc limit `limit`
fetch_history(limit) ==
    LET n == Len(invoices)
        k == IF limit < n THEN limit ELSE n
    IN  [i \in 1..k |-> invoices[n - i + 1]]

\* the newest row with that name (order by created_at desc, limit 1), as a
\* sequence holding its remittance fields; <<>> is the empty dict
get_last_remittance(name) ==
    LET rows == {i \in 1..Len(invoices) : invoices[i].name = name}
    IN  IF name = <<>> THEN <<>>
        ELSE IF rows /= {} THEN <<invoices[SetMax(rows)].bank>>
             ELSE <<>>

\* the dict save_invoice_record inserts
InvoiceRecord(r) ==
    [name |-> r.name, initials |-> r.initials, seq |-> r.seq,
     invoice_no |-> r.doc_no, invoice_date |-> IsoFormat(r.date),
     pdf_path |-> r.pdf_url, bank |-> r.bank,
     rid |-> r.rid, issued |-> r.date]

\* the dict save_po_record inserts
PoRecord(r) ==
    [vendor_name |-> r.name, initials |-> r.initials, seq |-> r.seq,
     po_no |-> r.doc_no, po_date |-> IsoFormat(r.date),
     pdf_url |-> r.pdf_url,
     rid |-> r.rid, issued |-> r.date]

(***************************************************************************)
(* Renderer and Blob Store.                                                *)
(***************************************************************************)
\* the renderer is deterministic in its payload; the payload's identifying
\* part is the document number
create_pdf_bytes(doc_no) ==
    <<"%", "P", "D", "F">> \o doc_no

create_po_pdf_bytes(doc_no) ==
    <<"%", "P", "D", "F">> \o doc_no

\* datetime.now().strftime("%Y%m%d%H%M%S%f"): the run of the model lies
\* within one second, only the microsecond field moves
Timestamp(t) ==
    <<"2", "0", "2", "5", "1", "1", "1", "5", "0", "9", "3", "0", "0", "0">> \o Pad(t, 6)

PdfSuffix ==
    <<".", "p", "d", "f">>

\* f"{invoice_no.replace('/', '-')}_{timestamp}.pdf"
InvoiceFilename(invoice_no, t) ==
    ReplaceSlash(invoice_no) \o <<"_">> \o Timestamp(t) \o PdfSuffix

\* f"{po_no.replace('/', '-')}.pdf"
PoFilename(po_no) ==
    ReplaceSlash(po_no) \o PdfSuffix

\* bucket.get_public_url(filename)
get_public_url(bucket, filename) ==
    <<"/", bucket, "/">> \o filename

Stored(bucket) ==
    {b.filename : b \in storage[bucket]}

(***************************************************************************)
(* What a run shows to the user: st.error / st.success calls, and the      *)
(* exception box Streamlit draws for an uncaught exception.  ref is the    *)
(* document number or locator the message text interpolates, if any.       *)
(***************************************************************************)
Msg(level, stage, ref) ==
    [level |-> level, stage |-> stage, ref |-> ref]

Show(s, m) ==
    [report EXCEPT ![s] = Append(@, m)]

\* an exception nobody catches ends the script run
Crash(s, stage) ==
    /\ pc' = [pc EXCEPT ![s] = "crashed"]
    /\ report' = Show(s, Msg("exception", stage, <<>>))

Stage(s, ev) ==
    [trace EXCEPT ![s] = Append(@, ev)]

\* one reading of datetime.now(): the clock has moved on since the last
\* reading, unless that reading was made by another session that has not
\* got further than its upload call since (the two read in the same
\* microsecond)
ClockReadings(s) ==
    {now + 1} \cup
    {t \in {now} : \E o \in Sessions \ {s} : lastread[o] = t /\ pc[o] = "upload"}

(***************************************************************************)
(* The user presses a Generate button: the script reruns top to bottom.    *)
(***************************************************************************)
SubmitInvoice(s, name, date, save, bank) ==
    /\ Resting(s)
    /\ nreq < MaxRequests
    /\ nreq' = nreq + 1
    /\ req' = [req EXCEPT ![s] =
                 [NoReq EXCEPT !.kind = "inv", !.name = name, !.date = date,
                               !.save = save, !.bank = bank, !.rid = nreq + 1]]
    /\ pc' = [pc EXCEPT ![s] = "form"]
    /\ trace' = [trace EXCEPT ![s] = <<>>]
    /\ report' = [report EXCEPT ![s] = <<>>]
    /\ UNCHANGED <<call, invoices, purchase_orders, storage, puts, now, lastread>>

SubmitPO(s, name, date, save) ==
    /\ Resting(s)
    /\ nreq < MaxRequests
    /\ nreq' = nreq + 1
    /\ req' = [req EXCEPT ![s] =
                 [NoReq EXCEPT !.kind = "po", !.name = name, !.date = date,
                               !.save = save, !.rid = nreq + 1]]
    /\ pc' = [pc EXCEPT ![s] = "numbering"]
    /\ trace' = [trace EXCEPT ![s] = <<>>]
    /\ report' = [report EXCEPT ![s] = <<>>]
    /\ UNCHANGED <<call, invoices, purchase_orders, storage, puts, now, lastread>>

(***************************************************************************)
(* Invoice form: the remittance prefill runs before the submit handler.    *)
(***************************************************************************)
FormLookup(s) ==
    /\ pc[s] = "form"
    /\ req' = [req EXCEPT ![s].previous_data =
                 IF req[s].name /= <<>> THEN get_last_remittance(req[s].name) ELSE <<>>]
    /\ pc' = [pc EXCEPT ![s] = "numbering"]
    /\ UNCHANGED <<call, invoices, purchase_orders, storage, puts, now, lastread,
                   trace, report, nreq>>

\* the query of get_last_remittance raises; nothing catches it
FormLookupError(s) ==
    /\ pc[s] = "form"
    /\ req[s].name /= <<>>
    /\ Crash(s, "lookup")
    /\ UNCHANGED <<call, invoices, purchase_orders, storage, puts, now, lastread,
                   req, trace, nreq>>

(***************************************************************************)
(* Invoice submit handler.                                                 *)
(***************************************************************************)
\* the handler with the upload moved ahead of the rendering
InvNumberingThenUpload(s) ==
    /\ pc[s] = "numbering"
    /\ req[s].kind = "inv"
    /\ LET vendor_initials == make_initials(Strip(req[s].name))
           seq == get_next_sequence(vendor_initials, req[s].date.year)
           invoice_no == build_invoice_number(vendor_initials, seq, req[s].date)
       IN  req' = [req EXCEPT ![s].initials = vendor_initials,
                              ![s].seq = seq,
                              ![s].doc_no = invoice_no,
                              ![s].filename = ReplaceSlash(invoice_no) \o PdfSuffix]
    /\ pc' = [pc EXCEPT ![s] = "upload"]
    /\ trace' = Stage(s, "number")
    /\ UNCHANGED <<call, invoices, purchase_orders, storage, puts, now, lastread,
                   report, nreq>>

InvNumbering(s) ==
    /\ pc[s] = "numbering"
    /\ req[s].kind = "inv"
    /\ LET vendor_clean == Strip(req[s].name)
           vendor_initials == make_initials(vendor_clean)
           seq == get_next_sequence(vendor_initials, req[s].date.year)
           invoice_no == build_invoice_number(vendor_initials, seq, req[s].date)
       IN  req' = [req EXCEPT ![s].initials = vendor_initials,
                              ![s].seq = seq,
                              ![s].doc_no = invoice_no]
    /\ pc' = [pc EXCEPT ![s] = "render"]
    /\ trace' = Stage(s, "number")
    /\ UNCHANGED <<call, invoices, purchase_orders, storage, puts, now, lastread,
                   report, nreq>>

\* the ledger query of get_next_sequence / get_next_po_sequence raises
NumberingError(s) ==
    /\ pc[s] = "numbering"
    /\ Crash(s, "numbering")
    /\ UNCHANGED <<call, invoices, purchase_orders, storage, puts, now, lastread,
                   req, trace, nreq>>

InvRender(s) ==
    /\ pc[s] = "render"
    /\ req[s].kind = "inv"
    /\ req' = [req EXCEPT ![s].pdf_bytes = create_pdf_bytes(req[s].doc_no)]
    /\ pc' = [pc EXCEPT ![s] = "stamp"]
    /\ trace' = Stage(s, "render")
    /\ UNCHANGED <<call, invoices, purchase_orders, storage, puts, now, lastread,
                   report, nreq>>

\* the except branch without its st.stop(): the handler goes on
InvRenderErrorNoStop(s) ==
    /\ pc[s] = "render"
    /\ req[s].kind = "inv"
    /\ pc' = [pc EXCEPT ![s] = "stamp"]
    /\ report' = Show(s, Msg("error", "render", <<>>))
    /\ trace' = Stage(s, "render")
    /\ UNCHANGED <<call, invoices, purchase_orders, storage, puts, now, lastread,
                   req, nreq>>

\* except Exception: st.error(...); st.stop()
InvRenderError(s) ==
    /\ pc[s] = "render"
    /\ req[s].kind = "inv"
    /\ pc' = [pc EXCEPT ![s] = "stopped"]
    /\ report' = Show(s, Msg("error", "render", <<>>))
    /\ trace' = Stage(s, "render")
    /\ UNCHANGED <<call, invoices, purchase_orders, storage, puts, now, lastread,
                   req, nreq>>

\* timestamp, pdf_filename, and the second create_pdf_bytes call
InvStampRender(s) ==
    /\ pc[s] = "stamp"
    /\ \E t \in ClockReadings(s) :
         /\ now' = t
         /\ lastread' = [lastread EXCEPT ![s] = t]
         /\ req' = [req EXCEPT ![s].filename = InvoiceFilename(req[s].doc_no, t),
                                ![s].pdf_bytes = create_pdf_bytes(req[s].doc_no)]
    /\ pc' = [pc EXCEPT ![s] = "upload"]
    /\ trace' = Stage(s, "render")
    /\ UNCHANGED <<call, invoices, purchase_orders, storage, puts, report, nreq>>

\* the second create_pdf_bytes call is outside the try block
InvStampRenderError(s) ==
    /\ pc[s] = "stamp"
    /\ \E t \in ClockReadings(s) :
         /\ now' = t
         /\ lastread' = [lastread EXCEPT ![s] = t]
         /\ req' = [req EXCEPT ![s].filename = InvoiceFilename(req[s].doc_no, t)]
    /\ Crash(s, "render")
    /\ trace' = Stage(s, "render")
    /\ UNCHANGED <<call, invoices, purchase_orders, storage, puts, nreq>>

\* bucket.upload(..., upsert False) succeeds: the name must be free
InvUpload(s) ==
    /\ pc[s] = "upload"
    /\ req[s].kind = "inv"
    /\ req[s].filename \notin Stored("invoices")
    /\ storage' = [storage EXCEPT !["invoices"] =
                     @ \cup {[filename |-> req[s].filename, bytes |-> req[s].pdf_bytes]}]
    /\ puts' = Append(puts, [bucket |-> "invoices", filename |-> req[s].filename,
                             rid |-> req[s].rid])
    /\ req' = [req EXCEPT ![s].pdf_url = get_public_url("invoices", req[s].filename),
                           ![s].uploaded = TRUE]
    /\ pc' = [pc EXCEPT ![s] = "save"]
    /\ trace' = Stage(s, "upload")
    /\ UNCHANGED <<call, invoices, purchase_orders, now, lastread, report, nreq>>

\* the upload raises (name taken, or the store is unreachable):
\* except Exception: st.error(...); pdf_url = None, and the handler goes on
InvUploadError(s) ==
    /\ pc[s] = "upload"
    /\ req[s].kind = "inv"
    /\ puts' = Append(puts, [bucket |-> "invoices", filename |-> req[s].filename,
                             rid |-> req[s].rid])
    /\ req' = [req EXCEPT ![s].pdf_url = <<>>]
    /\ report' = Show(s, Msg("error", "upload", <<>>))
    /\ pc' = [pc EXCEPT ![s] = "save"]
    /\ trace' = Stage(s, "upload")
    /\ UNCHANGED <<call, invoices, purchase_orders, storage, now, lastread, nreq>>

\* if save_pdf: save_invoice_record(...); st.success(...)
InvSave(s) ==
    /\ pc[s] = "save"
    /\ req[s].kind = "inv"
    /\ req[s].save
    /\ invoices' = Append(invoices, InvoiceRecord(req[s]))
    /\ report' = Show(s, Msg("success", "save", req[s].doc_no))
    /\ pc' = [pc EXCEPT ![s] = "done"]
    /\ trace' = Stage(s, "insert")
    /\ UNCHANGED <<call, purchase_orders, storage, puts, now, lastread, req, nreq>>

\* the insert raises; nothing catches it
InvSaveError(s) ==
    /\ pc[s] = "save"
    /\ req[s].kind = "inv"
    /\ req[s].save
    /\ Crash(s, "save")
    /\ trace' = Stage(s, "insert")
    /\ UNCHANGED <<call, invoices, purchase_orders, storage, puts, now, lastread,
                   req, nreq>>

\* the record inserted whatever the checkbox says
InvSkipSaveInserts(s) ==
    /\ pc[s] = "save"
    /\ req[s].kind = "inv"
    /\ ~req[s].save
    /\ invoices' = Append(invoices, InvoiceRecord(req[s]))
    /\ pc' = [pc EXCEPT ![s] = "done"]
    /\ UNCHANGED <<call, purchase_orders, storage, puts, now, lastread,
                   req, trace, report, nreq>>

\* save_pdf unchecked: straight to the preview
InvSkipSave(s) ==
    /\ pc[s] = "save"
    /\ req[s].kind = "inv"
    /\ ~req[s].save
    /\ pc' = [pc EXCEPT ![s] = "done"]
    /\ UNCHANGED <<call, invoices, purchase_orders, storage, puts, now, lastread,
                   req, trace, report, nreq>>

(***************************************************************************)
(* Purchase-order submit handler: no try block anywhere, so every failure  *)
(* is an uncaught exception.                                               *)
(***************************************************************************)
PoNumbering(s) ==
    /\ pc[s] = "numbering"
    /\ req[s].kind = "po"
    /\ LET initials == make_initials(req[s].name)
           seq == get_next_po_sequence(initials, req[s].date.year)
           po_no == build_po_number(initials, seq, req[s].date)
       IN  req' = [req EXCEPT ![s].initials = initials,
                              ![s].seq = seq,
                              ![s].doc_no = po_no]
    /\ pc' = [pc EXCEPT ![s] = "render"]
    /\ trace' = Stage(s, "number")
    /\ UNCHANGED <<call, invoices, purchase_orders, storage, puts, now, lastread,
                   report, nreq>>

\* pdf_bytes = create_po_pdf_bytes(...); filename = ...
PoRender(s) ==
    /\ pc[s] = "render"
    /\ req[s].kind = "po"
    /\ req' = [req EXCEPT ![s].pdf_bytes = create_po_pdf_bytes(req[s].doc_no),
                           ![s].filename = PoFilename(req[s].doc_no)]
    /\ pc' = [pc EXCEPT ![s] = "upload"]
    /\ trace' = Stage(s, "render")
    /\ UNCHANGED <<call, invoices, purchase_orders, storage, puts, now, lastread,
                   report, nreq>>

PoRenderError(s) ==
    /\ pc[s] = "render"
    /\ req[s].kind = "po"
    /\ Crash(s, "render")
    /\ trace' = Stage(s, "render")
    /\ UNCHANGED <<call, invoices, purchase_orders, storage, puts, now, lastread,
                   req, nreq>>

\* bucket.upload(filename, ...) succeeds: the name must be free
PoUpload(s) ==
    /\ pc[s] = "upload"
    /\ req[s].kind = "po"
    /\ req[s].filename \notin Stored("pos")
    /\ storage' = [storage EXCEPT !["pos"] =
                     @ \cup {[filename |-> req[s].filename, bytes |-> req[s].pdf_bytes]}]
    /\ puts' = Append(puts, [bucket |-> "pos", filename |-> req[s].filename,
                             rid |-> req[s].rid])
    /\ req' = [req EXCEPT ![s].pdf_url = get_public_url("pos", req[s].filename),
                           ![s].uploaded = TRUE]
    /\ pc' = [pc EXCEPT ![s] = "save"]
    /\ trace' = Stage(s, "upload")
    /\ UNCHANGED <<call, invoices, purchase_orders, now, lastread, report, nreq>>

\* the upload raises (name taken, or the store is unreachable)
PoUploadError(s) ==
    /\ pc[s] = "upload"
    /\ req[s].kind = "po"
    /\ puts' = Append(puts, [bucket |-> "pos", filename |-> req[s].filename,
                             rid |-> req[s].rid])
    /\ Crash(s, "upload")
    /\ trace' = Stage(s, "upload")
    /\ UNCHANGED <<call, invoices, purchase_orders, storage, now, lastread, req, nreq>>

\* if save_po: save_po_record(...); then st.success(...)
PoSave(s) ==
    /\ pc[s] = "save"
    /\ req[s].kind = "po"
    /\ req[s].save
    /\ purchase_orders' = Append(purchase_orders, PoRecord(req[s]))
    /\ report' = Show(s, Msg("success", "done", req[s].doc_no))
    /\ pc' = [pc EXCEPT ![s] = "done"]
    /\ trace' = Stage(s, "insert")
    /\ UNCHANGED <<call, invoices, storage, puts, now, lastread, req, nreq>>

PoSaveError(s) ==
    /\ pc[s] = "save"
    /\ req[s].kind = "po"
    /\ req[s].save
    /\ Crash(s, "save")
    /\ trace' = Stage(s, "insert")
    /\ UNCHANGED <<call, invoices, purchase_orders, storage, puts, now, lastread,
                   req, nreq>>

\* save_po unchecked
PoSkipSave(s) ==
    /\ pc[s] = "save"
    /\ req[s].kind = "po"
    /\ ~req[s].save
    /\ report' = Show(s, Msg("success", "done", req[s].doc_no))
    /\ pc' = [pc EXCEPT ![s] = "done"]
    /\ UNCHANGED <<call, invoices, purchase_orders, storage, puts, now, lastread,
                   req, trace, nreq>>

(***************************************************************************)
(* Specifications.                                                         *)
(***************************************************************************)
\* one step of the script run of session s
Step(s) ==
    \/ FormLookup(s)
    \/ FormLookupError(s)
    \/ InvNumbering(s)
    \/ NumberingError(s)
    \/ InvRender(s)
    \/ InvRenderError(s)
    \/ InvStampRender(s)
    \/ InvStampRenderError(s)
    \/ InvUpload(s)
    \/ InvUploadError(s)
    \/ InvSave(s)
    \/ InvSaveError(s)
    \/ InvSkipSave(s)
    \/ PoNumbering(s)
    \/ PoRender(s)
    \/ PoRenderError(s)
    \/ PoUpload(s)
    \/ PoUploadError(s)
    \/ PoSave(s)
    \/ PoSaveError(s)
    \/ PoSkipSave(s)

Submit(s) ==
    \/ \E name \in Names, date \in Dates, save \in BOOLEAN, bank \in Banks :
         SubmitInvoice(s, name, date, save, bank)
    \/ \E name \in Names, date \in Dates, save \in BOOLEAN :
         SubmitPO(s, name, date, save)

\* sessions submit and run concurrently
Next ==
    \E s \in Sessions : Submit(s) \/ Step(s)

Spec ==
    Init /\ [][Next]_vars

\* requests run one after another: a button is pressed only while no run
\* is in flight
SubmitAlone(s) ==
    /\ \A t \in Sessions : Resting(t)
    /\ Submit(s)

\* the handlers read nothing of the session that runs them, so one caller
\* stands for any number of callers that take turns
Caller == "s1"

SeqNext ==
    SubmitAlone(Caller) \/ Step(Caller)

SeqSpec ==
    Init /\ [][SeqNext]_vars

(***************************************************************************)
(* Vocabulary of the properties.                                           *)
(***************************************************************************)
Codes == {make_initials(n) : n \in Names}

Years == {d.year : d \in Dates}

\* the (code, issue year, seq) of the rows of a table, in insertion order
Keys(table) ==
    [i \in 1..Len(table) |->
        [code |-> table[i].initials, year |-> table[i].issued.year, seq |-> table[i].seq]]

\* the seq values recorded for (code, year), in insertion order
SeqsOf(table, code, year) ==
    LET ks == Keys(table)
        F[i \in 0..Len(ks)] ==
            IF i = 0 THEN <<>>
            ELSE IF ks[i].code = code /\ ks[i].year = year
                 THEN Append(F[i - 1], ks[i].seq)
                 ELSE F[i - 1]
    IN  F[Len(ks)]

NoDuplicateSeq(table) ==
    \A i, j \in 1..Len(table) :
        (/\ i < j
         /\ table[i].initials = table[j].initials
         /\ table[i].issued.year = table[j].issued.year)
        => table[i].seq /= table[j].seq

Rids(table) ==
    {table[i].rid : i \in 1..Len(table)}

\* the requests that have a record in the ledger
Logged ==
    Rids(invoices) \cup Rids(purchase_orders)

\* the requests that called bucket.upload
Putters ==
    {puts[i].rid : i \in 1..Len(puts)}

\* the run of session s showed a message about that stage
Shown(s, level, stage) ==
    \E i \in 1..Len(report[s]) :
        report[s][i].level = level /\ report[s][i].stage = stage

\* what the allocator of the run's kind returns now
NextFor(kind, code, year) ==
    IF kind = "po" THEN get_next_po_sequence(code, year)
    ELSE get_next_sequence(code, year)

(***************************************************************************)
(* C1: for a fixed (party code, year) no two ledger records carry the same *)
(* sequence value, also when two requests for that (code, year) interleave *)
(* their sequence read and their insert.                                   *)
(***************************************************************************)
C1_UniqueSequence ==
    NoDuplicateSeq(invoices) /\ NoDuplicateSeq(purchase_orders)

(***************************************************************************)
(* C2: when requests run one after another, the sequence numbers recorded  *)
(* for a (code, year) are 1, 2, ..., N in the order of the inserts: the    *)
(* first is 1, no gaps, no duplicates.                                     *)
(***************************************************************************)
C2_SequentialGapFree ==
    \A code \in Codes, year \in Years :
        /\ SeqsOf(invoices, code, year) =
              [i \in 1..Len(SeqsOf(invoices, code, year)) |-> i]
        /\ SeqsOf(purchase_orders, code, year) =
              [i \in 1..Len(SeqsOf(purchase_orders, code, year)) |-> i]

\* two invoices logged one after another for the same (code, year)
C2_Witness ==
    \E code \in Codes, year \in Years :
        /\ SeqsOf(invoices, code, year) = <<1, 2>>
        /\ \A s \in Sessions : Resting(s)

(***************************************************************************)
(* C3: every record in the ledger carries a PDF locator that refers to a   *)
(* blob already stored in the Blob Store, in both flows.                   *)
(***************************************************************************)
C3_LocatorResolves ==
    /\ \A i \in 1..Len(invoices) :
          \E f \in Stored("invoices") :
              invoices[i].pdf_path = get_public_url("invoices", f)
    /\ \A i \in 1..Len(purchase_orders) :
          \E f \in Stored("pos") :
              purchase_orders[i].pdf_url = get_public_url("pos", f)

(***************************************************************************)
(* C4: a request whose Blob Store upload failed is aborted before the      *)
(* ledger append: it never adds a record to the ledger.                    *)
(***************************************************************************)
C4_UploadFailureNoRecord ==
    \A s \in Sessions :
        (Shown(s, "error", "upload") \/ Shown(s, "exception", "upload"))
        => req[s].rid \notin Logged

(***************************************************************************)
(* C5: get_next_sequence / get_next_po_sequence return 1 + the maximum seq *)
(* among the records of that party code issued in that year, and 1 when    *)
(* there is none, whatever the records of the same code in other years.    *)
(***************************************************************************)
C5_NextSequence ==
    \A code \in Codes, year \in Years :
        /\ get_next_sequence(code, year) =
              LET S == {invoices[i].seq : i \in
                          {j \in 1..Len(invoices) :
                              /\ invoices[j].initials = code
                              /\ invoices[j].issued.year = year}}
              IN  IF S = {} THEN 1 ELSE SetMax(S) + 1
        /\ get_next_po_sequence(code, year) =
              LET S == {purchase_orders[i].seq : i \in
                          {j \in 1..Len(purchase_orders) :
                              /\ purchase_orders[j].initials = code
                              /\ purchase_orders[j].issued.year = year}}
              IN  IF S = {} THEN 1 ELSE SetMax(S) + 1

\* the code has a record in one year and none in the other: the allocator
\* answers 2 for the first and 1 for the second
C5_Witness ==
    \E code \in Codes, y1, y2 \in Years :
        /\ y1 /= y2
        /\ SeqsOf(invoices, code, y1) = <<1>>
        /\ SeqsOf(invoices, code, y2) = <<>>
        /\ get_next_sequence(code, y1) = 2
        /\ get_next_sequence(code, y2) = 1

(***************************************************************************)
(* C6: within one request the stages run in the order numbering,           *)
(* rendering, blob storing, ledger logging: the first stage is numbering,  *)
(* no stage runs before the one ahead of it has run, none runs again after *)
(* a later one.                                                            *)
(***************************************************************************)
Rank(ev) ==
    CASE ev = "number" -> 1
      [] ev = "render" -> 2
      [] ev = "upload" -> 3
      [] ev = "insert" -> 4

C6_StageOrder ==
    \A s \in Sessions :
        /\ trace[s] /= <<>> => trace[s][1] = "number"
        /\ \A i \in 1..(Len(trace[s]) - 1) :
              /\ Rank(trace[s][i]) <= Rank(trace[s][i + 1])
              /\ Rank(trace[s][i + 1]) <= Rank(trace[s][i]) + 1

\* an invoice request that went through all four stages
C6_Witness ==
    \E s \in Sessions :
        /\ req[s].kind = "inv"
        /\ trace[s] = <<"number", "render", "render", "upload", "insert">>

(***************************************************************************)
(* C7: when the upload succeeded and the ledger insert then fails, the     *)
(* failure is reported to the user with the orphaned blob's locator, the   *)
(* blob stays in the Blob Store and the request has no record in the       *)
(* ledger.                                                                 *)
(***************************************************************************)
C7_LedgerFailureReported ==
    \A s \in Sessions :
        (req[s].uploaded /\ Shown(s, "exception", "save"))
        => /\ \E i \in 1..Len(report[s]) : report[s][i].ref = req[s].pdf_url
           /\ req[s].filename \in
                 Stored(IF req[s].kind = "po" THEN "pos" ELSE "invoices")
           /\ req[s].rid \notin Logged

(***************************************************************************)
(* C8: a request whose rendering failed has persisted nothing: it made no  *)
(* upload and has no ledger record, so while no other request follows, the *)
(* allocator still answers the sequence number the failed request had      *)
(* computed.                                                               *)
(***************************************************************************)
RenderFailed(s) ==
    Shown(s, "error", "render") \/ Shown(s, "exception", "render")

C8_RenderFailureNothingPersisted ==
    \A s \in Sessions :
        RenderFailed(s)
        => /\ req[s].rid \notin Putters
           /\ req[s].rid \notin Logged
           /\ Resting(s)
           /\ req[s].rid = nreq
                 => NextFor(req[s].kind, req[s].initials, req[s].date.year) = req[s].seq

\* the rendering fails in a request that had computed sequence number 2
C8_Witness ==
    \E s \in Sessions :
        /\ RenderFailed(s)
        /\ req[s].seq = 2
        /\ req[s].rid = nreq

(***************************************************************************)
(* C9: a failure of the last-remittance lookup never blocks document       *)
(* generation: no run ends at the lookup.                                  *)
(***************************************************************************)
C9_LookupNeverBlocks ==
    \A s \in Sessions :
        ~(pc[s] = "crashed" /\ Shown(s, "exception", "lookup"))

(***************************************************************************)
(* C10: every Blob Store put uses a filename that no earlier put to that   *)
(* bucket has used.                                                        *)
(***************************************************************************)
C10_UniqueFilenames ==
    \A i, j \in 1..Len(puts) :
        (i < j /\ puts[i].bucket = puts[j].bucket)
        => puts[i].filename /= puts[j].filename

(***************************************************************************)
(* The identifier helpers called on their own, on inputs wider than the    *)
(* ones the forms of Spec supply: one call in each behaviour.              *)
(***************************************************************************)
NameChars == {"m", "h", " ", "Q"}

\* every display name of at most MaxNameLen characters
AllNames ==
    UNION {[1..n -> NameChars] : n \in 0..MaxNameLen}

CodeSamples == {<<"M", "H">>, <<"X", "X">>, <<"Q">>}

SeqSamples == {1, 2, 9, 10, 99, 100, 999, 1000}

AllDates ==
    [year : {2025, 2026}, month : 1..12, day : {15}]

CallMakeInitials(name) ==
    /\ call = NoCall
    /\ call' = [fn |-> "make_initials", arg |-> name, out |-> make_initials(name)]
    /\ UNCHANGED <<invoices, purchase_orders, storage, puts, now, lastread,
                   pc, req, trace, report, nreq>>

CallBuildInvoiceNumber(initials, seq, dt) ==
    /\ call = NoCall
    /\ call' = [fn |-> "build_invoice_number",
                arg |-> [initials |-> initials, seq |-> seq, dt |-> dt, kind |-> "INV"],
                out |-> build_invoice_number(initials, seq, dt)]
    /\ UNCHANGED <<invoices, purchase_orders, storage, puts, now, lastread,
                   pc, req, trace, report, nreq>>

CallBuildPoNumber(initials, seq, dt) ==
    /\ call = NoCall
    /\ call' = [fn |-> "build_po_number",
                arg |-> [initials |-> initials, seq |-> seq, dt |-> dt, kind |-> "PO"],
                out |-> build_po_number(initials, seq, dt)]
    /\ UNCHANGED <<invoices, purchase_orders, storage, puts, now, lastread,
                   pc, req, trace, report, nreq>>

PureNext ==
    \/ \E name \in AllNames : CallMakeInitials(name)
    \/ \E initials \in CodeSamples, seq \in SeqSamples, dt \in AllDates :
         CallBuildInvoiceNumber(initials, seq, dt)
    \/ \E initials \in CodeSamples, seq \in SeqSamples, dt \in AllDates :
         CallBuildPoNumber(initials, seq, dt)

PureSpec ==
    Init /\ [][PureNext]_vars

(***************************************************************************)
(* Vocabulary of the properties of the identifier helpers, stated without  *)
(* the helpers of the model: tokens by position, numbers by digit value.   *)
(***************************************************************************)
\* the positions where a token of the name starts, and where it ends
TokenStarts(name) ==
    {i \in 1..Len(name) : name[i] /= " " /\ (i = 1 \/ name[i - 1] = " ")}

TokenEnd(name, i) ==
    CHOOSE j \in i..Len(name) :
        /\ \A k \in i..j : name[k] /= " "
        /\ (j = Len(name) \/ name[j + 1] = " ")

SetMin(S) ==
    CHOOSE x \in S : \A y \in S : x <= y

UpperOf(c) ==
    IF c = "m" THEN "M" ELSE IF c = "h" THEN "H" ELSE c

\* the value of a string of decimal digits, -1 if it is not one
DigitValue(c) ==
    CASE c = "0" -> 0 [] c = "1" -> 1 [] c = "2" -> 2 [] c = "3" -> 3
      [] c = "4" -> 4 [] c = "5" -> 5 [] c = "6" -> 6 [] c = "7" -> 7
      [] c = "8" -> 8 [] c = "9" -> 9 [] OTHER -> 10

IsDigits(str) ==
    str /= <<>> /\ \A i \in 1..Len(str) : DigitValue(str[i]) < 10

NumberValue(str) ==
    LET F[i \in 0..Len(str)] ==
            IF i = 0 THEN 0 ELSE 10 * F[i - 1] + DigitValue(str[i])
    IN  F[Len(str)]

\* the roman numerals of the months
RomanNumerals ==
    << <<"I">>, <<"I", "I">>, <<"I", "I", "I">>, <<"I", "V">>, <<"V">>,
       <<"V", "I">>, <<"V", "I", "I">>, <<"V", "I", "I", "I">>, <<"I", "X">>,
       <<"X">>, <<"X", "I">>, <<"X", "I", "I">> >>

RECURSIVE FieldsFrom(_, _, _)
FieldsFrom(str, cur, acc) ==
    IF str = <<>> THEN Append(acc, cur)
    ELSE IF Head(str) = "/"
         THEN FieldsFrom(Tail(str), <<>>, Append(acc, cur))
         ELSE FieldsFrom(Tail(str), Append(cur, Head(str)), acc)

\* the fields of a string between its slashes
Fields(str) ==
    FieldsFrom(str, <<>>, <<>>)

(***************************************************************************)
(* C11: build_invoice_number / build_po_number return exactly              *)
(* "<seq zero-padded to 3 digits>/<KIND>-<code>/<roman month>/<year>",     *)
(* KIND being INV or PO and months 1..12 mapping to I..XII;                *)
(* ("MH", 2, 2025-11-15) gives "002/INV-MH/XI/2025".                       *)
(***************************************************************************)
C11_DocumentNumberFormat ==
    call.fn \in {"build_invoice_number", "build_po_number"}
    => LET a == call.arg
           f == Fields(call.out)
           kind == IF call.fn = "build_po_number"
                   THEN <<"P", "O", "-">> ELSE <<"I", "N", "V", "-">>
       IN  /\ Len(f) = 4
           /\ IsDigits(f[1])
           /\ NumberValue(f[1]) = a.seq
           /\ Len(f[1]) >= 3
           /\ (Len(f[1]) > 3 => f[1][1] /= "0")
           /\ f[2] = kind \o a.initials
           /\ f[3] = RomanNumerals[a.dt.month]
           /\ IsDigits(f[4])
           /\ NumberValue(f[4]) = a.dt.year
           /\ f[4][1] /= "0"
           /\ (/\ call.fn = "build_invoice_number"
               /\ a.initials = <<"M", "H">>
               /\ a.seq = 2
               /\ a.dt = [year |-> 2025, month |-> 11, day |-> 15])
              => call.out = <<"0", "0", "2", "/", "I", "N", "V", "-", "M", "H",
                              "/", "X", "I", "/", "2", "0", "2", "5">>

\* the example of the claim has been computed
C11_Witness ==
    /\ call.fn = "build_invoice_number"
    /\ call.arg.initials = <<"M", "H">>
    /\ call.arg.seq = 2
    /\ call.arg.dt = [year |-> 2025, month |-> 11, day |-> 15]
    /\ Len(call.out) = 18

(***************************************************************************)
(* C12: make_initials is total: no token gives "XX"; one token gives its   *)
(* first two characters upper-cased (the whole token if it is shorter);    *)
(* two or more tokens give the upper-cased first character of the first    *)
(* token followed by the upper-cased first character of the last token.    *)
(***************************************************************************)
C12_MakeInitials ==
    call.fn = "make_initials"
    => LET name == call.arg
           starts == TokenStarts(name)
           first == SetMin(starts)
           last == SetMax(starts)
       IN  /\ starts = {} => call.out = <<"X", "X">>
           /\ Cardinality(starts) = 1 =>
                 call.out =
                    IF TokenEnd(name, first) = first
                    THEN <<UpperOf(name[first])>>
                    ELSE <<UpperOf(name[first]), UpperOf(name[first + 1])>>
           /\ Cardinality(starts) >= 2 =>
                 call.out = <<UpperOf(name[first]), UpperOf(name[last])>>

\* a name of three tokens: the initials come from the first and the last
C12_Witness ==
    /\ call.fn = "make_initials"
    /\ call.arg = <<"m", " ", "Q", " ", "h">>
    /\ call.out = <<"M", "H">>

(***************************************************************************)
(* The ledger functions called on their own: logged requests run to        *)
(* completion one after another (by sessions that have closed since), and  *)
(* fetch_history is called in between.                                     *)
(***************************************************************************)
HistoryName == <<"m", " ", "h">>

HistoryDate == [year |-> 2025, month |-> 11, day |-> 15]

Rows ==
    Len(invoices) + Len(purchase_orders)

\* a whole invoice request with logging on, nothing failing
LogInvoice ==
    /\ Rows < MaxRows
    /\ LET initials == make_initials(Strip(HistoryName))
           seq == get_next_sequence(initials, HistoryDate.year)
           invoice_no == build_invoice_number(initials, seq, HistoryDate)
           filename == InvoiceFilename(invoice_no, now + 1)
           r == [NoReq EXCEPT !.kind = "inv", !.name = HistoryName,
                              !.date = HistoryDate, !.save = TRUE,
                              !.bank = <<"b", "c", "a">>, !.rid = nreq + 1,
                              !.initials = initials, !.seq = seq,
                              !.doc_no = invoice_no, !.filename = filename,
                              !.pdf_bytes = create_pdf_bytes(invoice_no),
                              !.pdf_url = get_public_url("invoices", filename),
                              !.uploaded = TRUE]
       IN  /\ storage' = [storage EXCEPT !["invoices"] =
                            @ \cup {[filename |-> filename, bytes |-> r.pdf_bytes]}]
           /\ puts' = Append(puts, [bucket |-> "invoices", filename |-> filename,
                                    rid |-> r.rid])
           /\ invoices' = Append(invoices, InvoiceRecord(r))
    /\ now' = now + 1
    /\ nreq' = nreq + 1
    /\ UNCHANGED <<purchase_orders, lastread, pc, req, trace, report, call>>

\* a whole purchase-order request with saving on, nothing failing
LogPo ==
    /\ Rows < MaxRows
    /\ LET initials == make_initials(HistoryName)
           seq == get_next_po_sequence(initials, HistoryDate.year)
           po_no == build_po_number(initials, seq, HistoryDate)
           filename == PoFilename(po_no)
           r == [NoReq EXCEPT !.kind = "po", !.name = HistoryName,
                              !.date = HistoryDate, !.save = TRUE,
                              !.rid = nreq + 1,
                              !.initials = initials, !.seq = seq,
                              !.doc_no = po_no, !.filename = filename,
                              !.pdf_bytes = create_po_pdf_bytes(po_no),
                              !.pdf_url = get_public_url("pos", filename),
                              !.uploaded = TRUE]
       IN  /\ storage' = [storage EXCEPT !["pos"] =
                            @ \cup {[filename |-> filename, bytes |-> r.pdf_bytes]}]
           /\ puts' = Append(puts, [bucket |-> "pos", filename |-> filename,
                                    rid |-> r.rid])
           /\ purchase_orders' = Append(purchase_orders, PoRecord(r))
    /\ nreq' = nreq + 1
    /\ UNCHANGED <<invoices, now, lastread, pc, req, trace, report, call>>

\* fetch_history(limit), with the size of the ledger at the time of the call
CallFetchHistory(limit) ==
    /\ call' = [fn |-> "fetch_history",
                arg |-> [limit |-> limit, rows |-> Len(invoices),
                         po_rows |-> Len(purchase_orders)],
                out |-> fetch_history(limit)]
    /\ UNCHANGED <<invoices, purchase_orders, storage, puts, now, lastread,
                   pc, req, trace, report, nreq>>

HistoryNext ==
    \/ LogInvoice
    \/ LogPo
    \/ \E limit \in 1..MaxLimit : CallFetchHistory(limit)

HistorySpec ==
    Init /\ [][HistoryNext]_vars

\* the smaller of two numbers
Min(a, b) ==
    IF a < b THEN a ELSE b

Unlogged(s) ==
    pc[s] = "done" /\ ~req[s].save

\* the number the handler of that kind builds
NumberFor(kind, code, seq, dt) ==
    IF kind = "po" THEN build_po_number(code, seq, dt)
    ELSE build_invoice_number(code, seq, dt)

(***************************************************************************)
(* C14, as amended: a request submitted with the save / log option         *)
(* unchecked completes without a ledger record, so its sequence number is  *)
(* not consumed: while no other request follows, the allocator answers the *)
(* same sequence number for that (party code, year), and a request of the  *)
(* same kind dated in the same month gets the same document number.        *)
(***************************************************************************)
C14_UnloggedNotConsumed ==
    \A s \in Sessions :
        Unlogged(s)
        => /\ req[s].rid \notin Logged
           /\ req[s].rid = nreq
                 => LET r == req[s]
                        next == NextFor(r.kind, r.initials, r.date.year)
                    IN  /\ next = r.seq
                        /\ \A d \in Dates :
                              (d.year = r.date.year /\ d.month = r.date.month)
                              => NumberFor(r.kind, r.initials, next, d) = r.doc_no

\* an unlogged request that had computed sequence number 2
C14_Witness ==
    \E s \in Sessions :
        /\ Unlogged(s)
        /\ req[s].seq = 2
        /\ req[s].rid = nreq

(***************************************************************************)
(* C14, as stated: the next request for the same (party code, year) is     *)
(* allocated the same sequence number and produces the same document       *)
(* number as the unlogged request.                                         *)
(***************************************************************************)
C14_SameNumberInYear ==
    \A s \in Sessions :
        (Unlogged(s) /\ req[s].rid = nreq)
        => LET r == req[s]
               next == NextFor(r.kind, r.initials, r.date.year)
           IN  /\ req[s].rid \notin Logged
               /\ next = r.seq
               /\ \A d \in Dates :
                     d.year = r.date.year
                     => NumberFor(r.kind, r.initials, next, d) = r.doc_no

====
